---- MODULE Spec2Model ----
(***************************************************************************)
(* A model of src/src/index.js, the FieldTextBox field of                  *)
(* blockly-field-text-box.                                                 *)
(*                                                                         *)
(* A JavaScript string is a sequence of one-character strings.  The        *)
(* characters are "a" and "b" (letters), " " (space), "\t" (tab), "\n"     *)
(* (newline), "nbsp" (U+00A0, Blockly.Field.NBSP) and "rlm" (U+200F).      *)
(***************************************************************************)
EXTENDS Integers, Sequences, FiniteSets, TLC

\* ------------------------------------------------------------------ bounds
\* Longest text given to splitOnRows.
MaxTextLen == 5
\* Largest budget given to splitOnRows (budgets are 0 .. MaxChars).
MaxChars == 7
\* Longest Text Value of the field.
MaxValueLen == 2
\* Most deferred resizeEditor_ callbacks pending at one time.
MaxTimers == 1

\* ------------------------------------------------------------- characters
NL == "\n"
SP == " "
TAB == "\t"
NBSP == "nbsp"
RLM == "rlm"

\* The JavaScript regular expression /\s/: it matches the space, the tab,
\* the newline and U+00A0 among the characters of the model (not U+200F).
SpaceChars == {SP, TAB, NL, NBSP}
IsSpace(c) == c \in SpaceChars

\* The JavaScript regular expression /\n/.
NewlineChars == {NL}

\* All sequences over S of length at most n.
SeqsUpTo(S, n) == UNION {[1..k -> S] : k \in 0..n}

WrapAlphabet == {"a", "b", SP, TAB, NL}
WrapTexts == SeqsUpTo(WrapAlphabet, MaxTextLen)
WrapBudgets == 0..MaxChars

\* ------------------------------------------------------------ splitOnRows
\* Index of the first character of s that is in seps, 0 when none.
FirstSep(s, seps) ==
  IF \E i \in 1..Len(s) : s[i] \in seps
  THEN CHOOSE i \in 1..Len(s) : s[i] \in seps /\ \A j \in 1..(i-1) : s[j] \notin seps
  ELSE 0

\* String.prototype.split with a regular expression that matches exactly one
\* character: one piece more than there are matches, empty pieces kept, and
\* the empty string gives one empty piece.
RECURSIVE SplitOn(_, _)
SplitOn(s, seps) ==
  LET i == FirstSep(s, seps)
  IN IF i = 0 THEN <<s>>
     ELSE <<SubSeq(s, 1, i-1)>> \o SplitOn(SubSeq(s, i+1, Len(s)), seps)

\* text.split(nl)
SplitParagraphs(text) == SplitOn(text, NewlineChars)

\* A variant that splits on runs of whitespace: the empty words between two
\* adjacent whitespace characters are dropped.
SplitWords_Runs(p) ==
  LET w == SelectSeq(SplitOn(p, SpaceChars), LAMBDA x : Len(x) > 0)
  IN IF Len(w) = 0 THEN << <<>> >> ELSE w

\* p.split(space)
SplitWords(p) == SplitOn(p, SpaceChars)

\* A variant whose comparison is not strict.
AddWord_Le(rows, word, chars) ==
  IF Len(word) + Len(rows[Len(rows)]) + 1 <= chars
  THEN [rows EXCEPT ![Len(rows)] = @ \o <<SP>> \o word]
  ELSE Append(rows, word)

\* A variant that does not count the joining space.
AddWord_NoSep(rows, word, chars) ==
  IF Len(word) + Len(rows[Len(rows)]) < chars
  THEN [rows EXCEPT ![Len(rows)] = @ \o <<SP>> \o word]
  ELSE Append(rows, word)

\* A variant without the else: a word that joined the last row also starts
\* a row.
AddWord_NoElse(rows, word, chars) ==
  IF Len(word) + Len(rows[Len(rows)]) + 1 < chars
  THEN Append([rows EXCEPT ![Len(rows)] = @ \o <<SP>> \o word], word)
  ELSE Append(rows, word)

\* The body of the inner loop: the word joins the last row or starts a row.
AddWord(rows, word, chars) ==
  IF Len(word) + Len(rows[Len(rows)]) + 1 < chars
  THEN [rows EXCEPT ![Len(rows)] = @ \o <<SP>> \o word]
  ELSE Append(rows, word)

\* for (let i = 1; i < w.length; i++) { ... }, from word number i (1-based
\* here, so the loop starts at 2).
RECURSIVE WrapWords(_, _, _, _)
WrapWords(rows, w, i, chars) ==
  IF i > Len(w) THEN rows
  ELSE WrapWords(AddWord(rows, w[i], chars), w, i + 1, chars)

\* A variant that seeds a row only while there is none: the first word of a
\* later paragraph is treated like any other word.
WrapParagraph_NoSeed(rows, p, chars) ==
  LET w == SplitWords(p)
  IN IF Len(rows) = 0 THEN WrapWords(Append(rows, w[1]), w, 2, chars)
     ELSE WrapWords(rows, w, 1, chars)

\* One round of the outer loop: the paragraph's first word seeds a row.
WrapParagraph(rows, p, chars) ==
  LET w == SplitWords(p)
  IN WrapWords(Append(rows, w[1]), w, 2, chars)

\* for (const p of text.split(nl)) { ... }, from paragraph number k.
RECURSIVE WrapParagraphs(_, _, _, _)
WrapParagraphs(rows, ps, k, chars) ==
  IF k > Len(ps) THEN rows
  ELSE WrapParagraphs(WrapParagraph(rows, ps[k], chars), ps, k + 1, chars)

splitOnRows(text, chars) == WrapParagraphs(<<>>, SplitParagraphs(text), 1, chars)

\* rows.join("\n"): the caller's side of the re-wrap round trip.
RECURSIVE JoinRows(_)
JoinRows(rows) ==
  IF Len(rows) = 0 THEN <<>>
  ELSE IF Len(rows) = 1 THEN rows[1]
  ELSE rows[1] \o <<NL>> \o JoinRows(Tail(rows))

\* ------------------------------------------------------------ constructor
DEFAULT_LINE_CHARS == 40

\* JavaScript values given as options.
Undefined == [t |-> "undefined"]
Num(n) == [t |-> "number", n |-> n]
Str(s) == [t |-> "string", s |-> s]
Bool(b) == [t |-> "boolean", b |-> b]

Digits == {"0", "1", "2", "3", "4", "5", "6", "7", "8", "9"}
DigitValue(c) ==
  CASE c = "0" -> 0 [] c = "1" -> 1 [] c = "2" -> 2 [] c = "3" -> 3
    [] c = "4" -> 4 [] c = "5" -> 5 [] c = "6" -> 6 [] c = "7" -> 7
    [] c = "8" -> 8 [] c = "9" -> 9

NaN == [isNaN |-> TRUE, n |-> 0]
Number(n) == [isNaN |-> FALSE, n |-> n]

\* The value of the longest prefix of digits of s, having read acc so far.
RECURSIVE DigitsPrefix(_, _, _)
DigitsPrefix(s, i, acc) ==
  IF i > Len(s) \/ s[i] \notin Digits THEN acc
  ELSE DigitsPrefix(s, i + 1, 10 * acc + DigitValue(s[i]))

\* parseInt of a string, radix 10: leading whitespace is skipped, a sign is
\* read, then the longest prefix of digits; NaN when there is no digit.
RECURSIVE ParseIntStr(_)
ParseIntStr(s) ==
  IF Len(s) = 0 THEN NaN
  ELSE IF IsSpace(s[1]) THEN ParseIntStr(Tail(s))
  ELSE LET signed == s[1] \in {"-", "+"}
           d == IF signed THEN Tail(s) ELSE s
       IN IF Len(d) = 0 \/ d[1] \notin Digits THEN NaN
          ELSE Number((IF s[1] = "-" THEN -1 ELSE 1) * DigitsPrefix(d, 1, 0))

\* parseInt(v, 10): v is converted to a string first, so an integer parses
\* to itself and undefined, true and false parse to NaN.
ParseInt(v) ==
  CASE v.t = "number" -> Number(v.n)
    [] v.t = "string" -> ParseIntStr(v.s)
    [] OTHER -> NaN

MathAbs(x) == IF x.isNaN THEN NaN ELSE Number(IF x.n < 0 THEN -x.n ELSE x.n)

\* A variant without Math.abs.
MaxLineCharsOf_NoAbs(opt) ==
  LET maxLineChars == ParseInt(opt)
  IN IF maxLineChars.isNaN \/ maxLineChars.n = 0 THEN DEFAULT_LINE_CHARS
     ELSE maxLineChars.n

\* Math.abs(parseInt(_options.maxLineChars, 10)) || DEFAULT_LINE_CHARS:
\* NaN and 0 are the falsy numbers.
MaxLineCharsOf(opt) ==
  LET maxLineChars == MathAbs(ParseInt(opt))
  IN IF maxLineChars.isNaN \/ maxLineChars.n = 0 THEN DEFAULT_LINE_CHARS
     ELSE maxLineChars.n

\* A variant that takes any truthy value for true.
CloseOnEnterOf_Truthy(opt) ==
  CASE opt.t = "boolean" -> opt.b
    [] opt.t = "string" -> Len(opt.s) > 0
    [] opt.t = "number" -> opt.n # 0
    [] OTHER -> FALSE

\* _options.closeOnEnter === true
CloseOnEnterOf(opt) == opt = Bool(TRUE)

\* The options a field is constructed with; a missing key reads undefined.
MaxLineCharsOptions ==
  {Undefined, Num(-5), Num(0), Num(1), Str(<<"x">>), Str(<<"-", "2">>)}
CloseOnEnterOptions == {Undefined, Bool(TRUE), Bool(FALSE), Str(<<"a">>)}

\* The Text Values of the model.
ValueAlphabet == {"a", SP}
Values == SeqsUpTo(ValueAlphabet, MaxValueLen)

\* ---------------------------------------------------------------- render_
\* getDisplayText_()
getDisplayText_(value, rtl) ==
  IF Len(value) = 0 THEN <<NBSP>>
  ELSE IF rtl THEN value \o <<RLM>>
  ELSE value

\* lines[i].replace(/\s/g, Blockly.Field.NBSP)
ReplaceSpaces(line) == [j \in 1..Len(line) |-> IF IsSpace(line[j]) THEN NBSP ELSE line[j]]

\* The text nodes render_ leaves in textGroup_, one for each line.
RenderedRows(value, rtl, chars) ==
  LET lines == splitOnRows(getDisplayText_(value, rtl), chars)
  IN [i \in 1..Len(lines) |-> ReplaceSpaces(lines[i])]

\* ------------------------------------------------------------ updateSize_
\* The host's constants (this.getConstants()), in layout units.
HostConstants ==
  [FIELD_TEXT_HEIGHT |-> 3,
   FIELD_BORDER_RECT_Y_PADDING |-> 1,
   FIELD_BORDER_RECT_X_PADDING |-> 2]

\* The host's two measurements, each a width per character: m.slow is
\* Blockly.utils.dom.getTextWidth, m.fast is getFastTextWidth.
MetricsChoices == {[slow |-> 2, fast |-> 1], [slow |-> 1, fast |-> 2]}
getTextWidth(row, m) == m.slow * Len(row)
getFastTextWidth(row, m) == m.fast * Len(row)

\* this.maxDisplayLength, a property of the host's field.
MaxDisplayLengths == {1, 50}

\* The first loop of updateSize_, from node number i: the widest node.
RECURSIVE NodesWidth(_, _, _, _)
NodesWidth(totalWidth, nodes, i, m) ==
  IF i > Len(nodes) THEN totalWidth
  ELSE LET textWidth == getTextWidth(nodes[i], m)
       IN NodesWidth(IF textWidth > totalWidth THEN textWidth ELSE totalWidth,
                     nodes, i + 1, m)

\* The first loop of updateSize_: the height of the nodes.
RECURSIVE NodesHeight(_, _, _)
NodesHeight(totalHeight, nodes, i) ==
  IF i > Len(nodes) THEN totalHeight
  ELSE NodesHeight(totalHeight + HostConstants.FIELD_TEXT_HEIGHT
                     + (IF i > 1 THEN HostConstants.FIELD_BORDER_RECT_Y_PADDING ELSE 0),
                   nodes, i + 1)

\* actualEditorLines[i], cut to maxDisplayLength.
Truncated(line, maxDisplayLength) ==
  IF Len(line) > maxDisplayLength THEN SubSeq(line, 1, maxDisplayLength) ELSE line

\* A variant of the second loop that keeps the last line's width.
EditorLinesWidth_Assign(totalWidth, lines, i, m, maxDisplayLength) ==
  IF Len(lines) = 0 THEN totalWidth
  ELSE getFastTextWidth(Truncated(lines[Len(lines)], maxDisplayLength), m)

\* The second loop of updateSize_, from line number i.
RECURSIVE EditorLinesWidth(_, _, _, _, _)
EditorLinesWidth(totalWidth, lines, i, m, maxDisplayLength) ==
  IF i > Len(lines) THEN totalWidth
  ELSE LET lineWidth == getFastTextWidth(Truncated(lines[i], maxDisplayLength), m)
       IN EditorLinesWidth(IF lineWidth > totalWidth THEN lineWidth ELSE totalWidth,
                           lines, i + 1, m, maxDisplayLength)

\* The size updateSize_ writes to size_.
UpdatedSize(nodes, editing, value, chars, m, maxDisplayLength, border) ==
  LET nodesWidth == NodesWidth(0, nodes, 1, m)
      nodesHeight == NodesHeight(0, nodes, 1)
      totalWidth ==
        IF editing
        THEN EditorLinesWidth(nodesWidth, splitOnRows(value, chars), 1, m,
                              maxDisplayLength)
        ELSE nodesWidth
  IN IF border
     THEN [width |-> totalWidth + HostConstants.FIELD_BORDER_RECT_X_PADDING * 2,
           height |-> nodesHeight + HostConstants.FIELD_BORDER_RECT_Y_PADDING * 2]
     ELSE [width |-> totalWidth, height |-> nodesHeight]

\* --------------------------------------------------------------- key down
Keys == {"ENTER", "TAB", "a"}

\* The character the browser inserts for a key it is left to handle.
KeyChar(key) == IF key = "ENTER" THEN NL ELSE key
Inserts(key) == key \in {"ENTER", "a"}

\* The handler onHtmlInputKeyDown_ passes the event to.
HandlerOf(key, closeOnEnter) ==
  IF key = "ENTER" /\ closeOnEnter THEN "textinput" ELSE "multiline"

\* The host's text-input handler hides the widget, which ends the edit
\* session, on Enter and on Tab.
TextInputCloses(key) == key \in {"ENTER", "TAB"}

\* Whether the handler the event is passed to closes the editor.  The host's
\* multiline handler passes every key but Enter on to the text-input
\* handler and leaves Enter to the text area.
ClosesEditor(key, handler) ==
  IF handler = "textinput" THEN TextInputCloses(key)
  ELSE key # "ENTER" /\ TextInputCloses(key)

\* ------------------------------------------------------------------ state
VARIABLES
  wPhase,   \* "idle", "input", "wrapped" or "rewrapped"
  wText,    \* the text given to splitOnRows
  wChars,   \* the budget given to splitOnRows
  wRows,    \* what splitOnRows returned
  wPrev,    \* the rows of the call before the re-wrap
  options,         \* the options the constructor was given
  maxLineChars_,
  closeOnEnter_,
  value_,
  env,             \* sourceBlock_.RTL, userAgent.GECKO, borderRect_, metrics,
                   \* maxDisplayLength: the host's side, fixed for a field
  isBeingEdited_,
  disposed,        \* the host has disposed the field
  textGroup_,      \* the text of the child nodes of textGroup_
  size_,
  sizedAs,         \* "never", or how updateSize_ last ran: "display", "edit"
  timers,          \* the deferred resizeEditor_ callbacks not yet run
  resized,         \* what resizeEditor_ ran against in the last step:
                   \* "none", "open", "closed" or "disposed"
  lastKey,         \* the key of the last step, "none" if it was no key down
  handledBy        \* the handler that key was passed to

wrapVars == <<wPhase, wText, wChars, wRows, wPrev>>
configVars == <<options, maxLineChars_, closeOnEnter_, env>>
fieldVars ==
  <<options, maxLineChars_, closeOnEnter_, value_, env, isBeingEdited_, disposed,
    textGroup_, size_, sizedAs, timers, resized, lastKey, handledBy>>
vars == <<wrapVars, fieldVars>>

\* ------------------------------------------------------------ the field
Envs ==
  [RTL : BOOLEAN, GECKO : BOOLEAN, borderRect_ : BOOLEAN,
   metrics : MetricsChoices, maxDisplayLength : MaxDisplayLengths]

\* new FieldTextBox(value, validator, options), not yet rendered.
Constructed(value, opts, e) ==
  /\ options = opts
  /\ maxLineChars_ = MaxLineCharsOf(opts.maxLineChars)
  /\ closeOnEnter_ = CloseOnEnterOf(opts.closeOnEnter)
  /\ value_ = value
  /\ env = e
  /\ isBeingEdited_ = FALSE
  /\ disposed = FALSE
  /\ textGroup_ = <<>>
  /\ size_ = [width |-> 0, height |-> 0]
  /\ sizedAs = "never"
  /\ timers = 0
  /\ resized = "none"
  /\ lastKey = "none"
  /\ handledBy = "none"

WrapIdle ==
  /\ wPhase = "idle"
  /\ wText = <<>>
  /\ wChars = 0
  /\ wRows = <<>>
  /\ wPrev = <<>>

Init ==
  /\ \E value \in Values :
       \E opts \in [maxLineChars : MaxLineCharsOptions,
                    closeOnEnter : CloseOnEnterOptions] :
         \E e \in Envs : Constructed(value, opts, e)
  /\ WrapIdle

getMaxLineChars == maxLineChars_

\* resizeEditor_ has no guard of its own: it runs against whatever the field
\* is when it is called.
ResizeTarget(editing, isDisposed) ==
  IF isDisposed THEN "disposed" ELSE IF editing THEN "open" ELSE "closed"

\* render_ for the value and the edit state the step leaves: the text nodes,
\* updateSize_, and resizeEditor_ now or, in RTL, after a timeout.
CanRender(editing) == (editing /\ env.RTL) => timers < MaxTimers

Render(value, editing) ==
  /\ textGroup_' = RenderedRows(value, env.RTL, maxLineChars_)
  /\ size_' = UpdatedSize(textGroup_', editing, value, maxLineChars_, env.metrics,
                          env.maxDisplayLength, env.borderRect_)
  /\ sizedAs' = IF editing THEN "edit" ELSE "display"
  /\ IF editing /\ env.RTL
     THEN timers' = timers + 1 /\ resized' = "none"
     ELSE /\ timers' = timers
          /\ resized' = IF editing THEN ResizeTarget(editing, FALSE) ELSE "none"

\* The host renders the block, for the first time or again.
Rerender ==
  /\ ~disposed
  /\ CanRender(isBeingEdited_)
  /\ Render(value_, isBeingEdited_)
  /\ lastKey' = "none" /\ handledBy' = "none"
  /\ UNCHANGED <<configVars, value_, isBeingEdited_, disposed, wrapVars>>

\* setValue on a rendered field, outside an edit session (in one the value
\* changes through the editor): doValueUpdate_ stores the value and the
\* field renders again.
SetValue(v) ==
  /\ ~disposed
  /\ sizedAs # "never"
  /\ ~isBeingEdited_
  /\ v # value_
  /\ CanRender(isBeingEdited_)
  /\ value_' = v
  /\ Render(v, isBeingEdited_)
  /\ lastKey' = "none" /\ handledBy' = "none"
  /\ UNCHANGED <<configVars, isBeingEdited_, disposed, wrapVars>>

\* The host opens the editor of a rendered field: the edit session starts
\* and widgetCreate_ runs resizeEditor_ now or, on Gecko, after a timeout.
ShowEditor ==
  /\ ~disposed
  /\ sizedAs # "never"
  /\ ~isBeingEdited_
  /\ env.GECKO => timers < MaxTimers
  /\ isBeingEdited_' = TRUE
  /\ IF env.GECKO
     THEN timers' = timers + 1 /\ resized' = "none"
     ELSE timers' = timers /\ resized' = ResizeTarget(TRUE, FALSE)
  /\ lastKey' = "none" /\ handledBy' = "none"
  /\ UNCHANGED <<configVars, value_, disposed, textGroup_, size_, sizedAs, wrapVars>>

\* onHtmlInputKeyDown_, and what follows it in the same turn: the editor
\* closes, or the text area takes the key and the value is updated.
KeyDown(key) ==
  LET handler == HandlerOf(key, closeOnEnter_)
      closes == ClosesEditor(key, handler)
      typed == ~closes /\ Inserts(key)
      newValue == IF typed THEN Append(value_, KeyChar(key)) ELSE value_
  IN /\ ~disposed
     /\ isBeingEdited_
     /\ typed => Len(value_) < MaxValueLen
     /\ CanRender(~closes)
     /\ lastKey' = key
     /\ handledBy' = handler
     /\ isBeingEdited_' = ~closes
     /\ value_' = newValue
     /\ Render(newValue, ~closes)
     /\ UNCHANGED <<configVars, disposed, wrapVars>>

\* The widget is hidden (a click elsewhere): the edit session ends and the
\* field renders again.
HideEditor ==
  /\ ~disposed
  /\ isBeingEdited_
  /\ isBeingEdited_' = FALSE
  /\ Render(value_, FALSE)
  /\ lastKey' = "none" /\ handledBy' = "none"
  /\ UNCHANGED <<configVars, value_, disposed, wrapVars>>

\* The host disposes the field; an open editor is closed with it.
Dispose ==
  /\ ~disposed
  /\ disposed' = TRUE
  /\ isBeingEdited_' = FALSE
  /\ resized' = "none"
  /\ lastKey' = "none" /\ handledBy' = "none"
  /\ UNCHANGED <<configVars, value_, textGroup_, size_, sizedAs, timers, wrapVars>>

\* A timeout set by render_ or widgetCreate_ expires: the bound
\* resizeEditor_ runs.
TimerFires ==
  /\ timers > 0
  /\ timers' = timers - 1
  /\ resized' = ResizeTarget(isBeingEdited_, disposed)
  /\ lastKey' = "none" /\ handledBy' = "none"
  /\ UNCHANGED <<configVars, value_, isBeingEdited_, disposed, textGroup_, size_,
                 sizedAs, wrapVars>>

Next ==
  \/ Rerender
  \/ \E v \in Values : SetValue(v)
  \/ ShowEditor
  \/ \E key \in Keys : KeyDown(key)
  \/ HideEditor
  \/ Dispose
  \/ TimerFires

Spec == Init /\ [][Next]_vars

\* ------------------------------------------------ splitOnRows on its own
\* A field that takes no part: splitOnRows is static.
FieldParked ==
  Constructed(<<>>, [maxLineChars |-> Undefined, closeOnEnter |-> Undefined],
              [RTL |-> FALSE, GECKO |-> FALSE, borderRect_ |-> TRUE,
               metrics |-> [slow |-> 1, fast |-> 1], maxDisplayLength |-> 50])

WrapInit ==
  /\ wPhase = "input"
  /\ wText \in WrapTexts
  /\ wChars \in WrapBudgets
  /\ wRows = <<>>
  /\ wPrev = <<>>
  /\ FieldParked

\* A caller applies splitOnRows to the text.
Wrap ==
  /\ wPhase = "input"
  /\ wRows' = splitOnRows(wText, wChars)
  /\ wPhase' = "wrapped"
  /\ UNCHANGED <<wText, wChars, wPrev, fieldVars>>

\* A caller joins the rows by newlines and applies splitOnRows again.
Rewrap ==
  /\ wPhase = "wrapped"
  /\ wText' = JoinRows(wRows)
  /\ wRows' = splitOnRows(wText', wChars)
  /\ wPrev' = wRows
  /\ wPhase' = "rewrapped"
  /\ UNCHANGED <<wChars, fieldVars>>

WrapNext == Wrap \/ Rewrap

SpecWrap == WrapInit /\ [][WrapNext]_vars

C7_State ==
  /\ closeOnEnter_ = (options.closeOnEnter = Bool(TRUE))
  /\ lastKey = "ENTER" =>
       IF options.closeOnEnter = Bool(TRUE)
       THEN handledBy = "textinput" /\ ~isBeingEdited_
       ELSE /\ handledBy = "multiline"
            /\ isBeingEdited_
            /\ Len(value_) > 0
            /\ value_[Len(value_)] = NL
  /\ lastKey \in Keys \ {"ENTER"} => handledBy = "multiline"

\* C7, in every step: the flag does not change, and an Enter that ends the
\* session leaves the value as it was.
C7_Step ==
  /\ closeOnEnter_' = closeOnEnter_
  /\ (lastKey' = "ENTER" /\ closeOnEnter_) => value_' = value_

\* C7: Enter ends the edit session exactly when closeOnEnter was the boolean
\* true; otherwise, and for every other key, the multiline handler gets the
\* event; the flag is fixed at construction.
C7_EnterClosesIffFlag == [](C7_State) /\ [][C7_Step]_vars

\* C7 witness: Enter in a field whose closeOnEnter is a truthy value that is
\* not the boolean true.
C7_Witness ==
  /\ lastKey = "ENTER"
  /\ options.closeOnEnter = Str(<<"a">>)
  /\ handledBy = "multiline"
  /\ isBeingEdited_

\* C8: a deferred resizeEditor_ never runs against a disposed field or a
\* closed editor.
C8_DeferredResizeIsGuarded == resized \in {"none", "open"}

\* The widest of a set of widths, 0 for none.
MaxOf(S) == IF S = {} THEN 0 ELSE CHOOSE x \in S : \A y \in S : y <= x

DisplayRowsWidth ==
  MaxOf({getTextWidth(textGroup_[i], env.metrics) : i \in 1..Len(textGroup_)})

EditRowsWidth ==
  LET rows == splitOnRows(value_, maxLineChars_)
      cut(n) == IF n > env.maxDisplayLength THEN env.maxDisplayLength ELSE n
  IN MaxOf({env.metrics.fast * cut(Len(rows[i])) : i \in 1..Len(rows)})

BorderPadding ==
  IF env.borderRect_ THEN 2 * HostConstants.FIELD_BORDER_RECT_X_PADDING ELSE 0

\* C9: the width written in an edit session is the larger of the widest
\* display row and the widest fast-measured row of the value wrapped at the
\* same budget (cut to maxDisplayLength), plus the border padding; it is at
\* least the width written in display mode for the same rows.
C9_EditWidthAtLeastDisplayWidth ==
  sizedAs = "edit" =>
    LET display == UpdatedSize(textGroup_, FALSE, value_, maxLineChars_, env.metrics,
                               env.maxDisplayLength, env.borderRect_).width
        wider == IF EditRowsWidth > DisplayRowsWidth THEN EditRowsWidth
                 ELSE DisplayRowsWidth
    IN /\ display = DisplayRowsWidth + BorderPadding
       /\ size_.width = wider + BorderPadding
       /\ size_.width >= display

\* C9 witness: an edit session in which the fast-measured rows are wider
\* than the display rows, and another row is cut to maxDisplayLength.
C9_Witness ==
  /\ sizedAs = "edit"
  /\ isBeingEdited_
  /\ Len(value_) > env.maxDisplayLength
  /\ EditRowsWidth > DisplayRowsWidth
  /\ size_.width > DisplayRowsWidth + BorderPadding

\* C10: a rendered field whose value is empty shows exactly one row, the
\* placeholder U+00A0, whatever the budget >= 1.
C10_EmptyValueShowsPlaceholder ==
  (sizedAs # "never" /\ value_ = <<>> /\ maxLineChars_ >= 1) =>
    textGroup_ = << <<NBSP>> >>

\* ------------------------------------------------- claims on splitOnRows
WrapDone == wPhase \in {"wrapped", "rewrapped"}

\* The rows as one string, a newline between two rows.
Joined == JoinRows(wRows)

\* Length of the word that starts right after position i of s.
WordLenAfter(s, i) ==
  LET stops == {j \in (i+1)..Len(s) : IsSpace(s[j])}
  IN IF stops = {} THEN Len(s) - i
     ELSE (CHOOSE j \in stops : \A k \in stops : j <= k) - i - 1

\* Length of the row of s that ends right before position i.
RowLenBefore(s, i) ==
  LET breaks == {j \in 1..(i-1) : s[j] = NL}
  IN IF breaks = {} THEN i - 1
     ELSE i - 1 - (CHOOSE j \in breaks : \A k \in breaks : k <= j)

HasSpace(row) == \E j \in 1..Len(row) : row[j] = SP
NumNewlines(s) == Cardinality({i \in 1..Len(s) : s[i] = NL})

RECURSIVE ConcatRowsOf(_, _, _)
ConcatRowsOf(ps, k, chars) ==
  IF k > Len(ps) THEN <<>>
  ELSE splitOnRows(ps[k], chars) \o ConcatRowsOf(ps, k + 1, chars)

AaBb == <<"a", "a", SP, "b", "b">>

\* C2: every whitespace character of a paragraph (each one precedes a word
\* after the paragraph's first) becomes a space, the word joining the current
\* last row, exactly when wordLength + currentRowLength + 1 < budget, and a
\* row break otherwise; "aa bb" gives ["aa", "bb"] for a budget <= 5 and
\* ["aa bb"] for a budget >= 6.
C2_AppendIffFits ==
  WrapDone =>
    /\ Len(Joined) = Len(wText)
    /\ \A i \in 1..Len(wText) :
         (IsSpace(wText[i]) /\ wText[i] # NL /\ i <= Len(Joined)) =>
           IF WordLenAfter(wText, i) + RowLenBefore(Joined, i) + 1 < wChars
           THEN Joined[i] = SP
           ELSE Joined[i] = NL
    /\ wText = AaBb =>
         wRows = IF wChars <= 5 THEN << <<"a", "a">>, <<"b", "b">> >>
                 ELSE <<AaBb>>

\* C2 witness: a paragraph in which one word joined the row and the next
\* started a new row.
C2_Witness ==
  /\ wPhase = "wrapped"
  /\ NumNewlines(wText) = 0
  /\ Len(wRows) = 2
  /\ HasSpace(wRows[1])
  /\ Len(wRows[2]) > 0

\* C3: the rows are the rows of the newline-delimited paragraphs, in order;
\* every paragraph gives at least one row, an empty paragraph exactly one
\* empty row, the empty text [""]; every newline of the text is a row break.
C3_ParagraphsKeptApart ==
  WrapDone =>
    LET ps == SplitParagraphs(wText)
    IN /\ wRows = ConcatRowsOf(ps, 1, wChars)
       /\ \A k \in 1..Len(ps) :
            /\ Len(splitOnRows(ps[k], wChars)) >= 1
            /\ ps[k] = <<>> => splitOnRows(ps[k], wChars) = << <<>> >>
       /\ wText = <<>> => wRows = << <<>> >>
       /\ Len(wRows) >= NumNewlines(wText) + 1
       /\ \A r \in 1..Len(wRows) : \A j \in 1..Len(wRows[r]) : wRows[r][j] # NL
       /\ Len(Joined) = Len(wText)
       /\ \A i \in 1..Len(wText) : wText[i] = NL => Joined[i] = NL

\* C3 witness: a blank line between two paragraphs whose words would fit on
\* one row.
C3_Witness ==
  /\ wPhase = "wrapped"
  /\ wText = <<"a", NL, NL, "b">>
  /\ wChars = MaxChars
  /\ wRows = << <<"a">>, <<>>, <<"b">> >>

\* C4 as claimed: a run of whitespace is one delimiter, so no row holds two
\* consecutive spaces.
C4_RunIsOneDelimiter ==
  WrapDone =>
    \A r \in 1..Len(wRows) : \A j \in 1..(Len(wRows[r]) - 1) :
      ~(wRows[r][j] = SP /\ wRows[r][j+1] = SP)

\* C4 amended: each single whitespace character of a paragraph is a
\* delimiter of its own; it becomes exactly one space or one row break,
\* whatever character it was, and every other character is kept in place.
\* "a\tb" gives ["a b"] and "a  b" gives ["a  b"] when the budget is large.
C4_EachSpaceIsADelimiter ==
  WrapDone =>
    /\ Len(Joined) = Len(wText)
    /\ \A i \in 1..Len(wText) :
         i <= Len(Joined) =>
           IF IsSpace(wText[i]) THEN Joined[i] \in {SP, NL}
           ELSE Joined[i] = wText[i]
    /\ (wText = <<"a", TAB, "b">> /\ wChars >= 5) => wRows = << <<"a", SP, "b">> >>
    /\ (wText = <<"a", SP, SP, "b">> /\ wChars >= 6) =>
         wRows = << <<"a", SP, SP, "b">> >>

\* C4 witness: two adjacent spaces, kept as two spaces in one row.
C4_Witness ==
  /\ wPhase = "wrapped"
  /\ wText = <<"a", SP, SP, "b">>
  /\ wRows = << <<"a", SP, SP, "b">> >>

\* C5 as claimed: with a budget >= 1 no row is longer than budget - 1.
C5_RowsBelowBudget ==
  (WrapDone /\ wChars >= 1) =>
    \A r \in 1..Len(wRows) : Len(wRows[r]) <= wChars - 1

\* C5 amended: a row made of more than one word (it holds a joining space)
\* is at most budget - 1 long; only a row made of one word can be longer.
C5_JoinedRowsBelowBudget ==
  WrapDone =>
    \A r \in 1..Len(wRows) : HasSpace(wRows[r]) => Len(wRows[r]) <= wChars - 1

\* C5 witness: a row of two words that is exactly budget - 1 long.
C5_Witness ==
  /\ wPhase = "wrapped"
  /\ \E r \in 1..Len(wRows) :
       /\ HasSpace(wRows[r])
       /\ Len(wRows[r]) = wChars - 1
       /\ wRows[r][1] # SP
       /\ wRows[r][Len(wRows[r])] # SP

\* C6: the rows joined by newlines wrap, at the same budget, to the same
\* rows.
C6_RewrapIdempotent ==
  wPhase = "rewrapped" => wRows = wPrev

\* C6 witness: a re-wrap of rows that were broken by the budget.
C6_Witness ==
  /\ wPhase = "rewrapped"
  /\ Len(wRows) >= 2
  /\ HasSpace(wRows[1])
  /\ NumNewlines(wText) = Len(wRows) - 1
  /\ wRows = wPrev

====
